---- MODULE Spec2Model ----
(***************************************************************************)
(* Model of BPMNLayoutEngine (src/src/core/bpmn_layout.py): the engine is  *)
(* constructed from a flow document and calculate_layout runs its stages    *)
(* one after the other.  Node, lane, rank and edge records keep the field  *)
(* names of the LayoutNode, LayoutLane, LayoutRank and LayoutEdge classes. *)
(* Identifiers are strings; a label is represented by its length, the only *)
(* thing the engine reads of it.  Lane and rank indexes are 0-based as in  *)
(* the code; TLA+ sequences are 1-based, so lanes[i] has lane_index i-1.   *)
(***************************************************************************)
EXTENDS Integers, Sequences, FiniteSets

(* ---------------- bounds of the explored documents ---------------- *)
MaxNodes == 3
MaxActors == 2
MaxFlows == 3
MaxGeomFlows == 1
MaxPhases == 2
MaxDirs == 3
MaxLinks == 2
RecursionLimit == 6

(* ---------------- self.params (bpmn_layout.py:139-150) ---------------- *)
margin_x == 50
margin_y == 50
lane_header_width == 180
task_base_width == 180
task_base_height == 80
gateway_size == 60
rank_spacing == 100
node_spacing_y == 20
lane_min_height == 150
lane_padding_y == 30
task_max_width == 300
label_base_width == 80
label_char_width == 10

(* ---------------- identifiers ---------------- *)
\* Node ids in ascending string order; IdPos gives the position str < str compares.
NodeNames == <<"a", "b", "c", "d", "e", "f">>
NodeIds(n) == {NodeNames[i] : i \in 1..n}
IdPos(id) == CHOOSE i \in 1..Len(NodeNames) : NodeNames[i] = id
\* An id that names neither a task nor a gateway, and the empty string.
GhostId == "x"
EmptyId == ""
AllIds == NodeIds(Len(NodeNames)) \cup {GhostId, EmptyId}
\* Python's None (task.get("phase_id", None)).
None == "None"
\* Label lengths of tasks: a short and a long name.
LabelLens == {4, 30}

(* ---------------- generic helpers ---------------- *)
Max2(a, b) == IF a >= b THEN a ELSE b
Min2(a, b) == IF a <= b THEN a ELSE b
Abs(a) == IF a >= 0 THEN a ELSE 0 - a
SetMax(S) == CHOOSE m \in S : \A k \in S : k <= m
Range(s) == {s[i] : i \in 1..Len(s)}
\* Python true division by 2; every dividend the explored documents produce is even.
Half(v) == v \div 2
\* All sequences over S of length 0..k.
SeqsUpTo(S, k) == UNION {[1..m -> S] : m \in 0..k}
\* All orders in which the elements of the finite set S can be iterated.
Orders(S) == {s \in [1..Cardinality(S) -> S] : Range(s) = S}

\* Position (1-based) of item in the sequence s.
IndexOf(s, item) == CHOOSE i \in 1..Len(s) : s[i] = item /\ \A j \in 1..(i - 1) : s[j] # item

RECURSIVE SumSeq(_)
SumSeq(s) == IF s = <<>> THEN 0 ELSE s[1] + SumSeq(Tail(s))

\* sorted(items, key=...) as a sequence, for a strict total order Less on the items.
SortedSeq(S, Less(_, _)) ==
  CHOOSE s \in Orders(S) : \A i, j \in 1..Len(s) : i < j => Less(s[i], s[j])

(* ---------------- state ---------------- *)
VARIABLES
  actors,           \* self.actors: sequence of actor ids
  phases,           \* self.phases: sequence of phase ids
  tasks,            \* self.tasks: sequence of [id, actor_id, phase_id, label_len]
  gateways,         \* self.gateways: sequence of gateway ids
  flows_data,       \* self.flows_data: sequence of [from, to]
  graph,            \* self.graph: id -> sequence of successor ids
  reverse_graph,    \* self.reverse_graph: id -> sequence of predecessor ids
  nodes,            \* self.nodes: node id -> LayoutNode
  node_keys,        \* insertion order of self.nodes (dict iteration order)
  lanes,            \* self.lanes
  ranks,            \* self.ranks
  edges,            \* self.edges
  in_degree,        \* local of _assign_ranks_by_topological_sort
  rank_assignment,  \* local of _assign_ranks_by_topological_sort
  queue,            \* local of _assign_ranks_by_topological_sort
  enqueue_count,    \* history: how often each node was appended to queue
  assign_count,     \* history: how often rank_assignment[nid] was written
  dequeues,         \* history: number of queue.popleft() calls
  pc,               \* position inside calculate_layout
  result,           \* value returned by calculate_layout
  run,              \* 1: first computation, 2: a later computation
  first,            \* layout of the first computation (for comparing two runs)
  added_flow,       \* the flow the second document has in addition, or <<>>
  input_path,       \* determine_output_paths: argument input_path (Path.parts)
  output_arg,       \* determine_output_paths: argument output_arg (Path.parts)
  svg_output_arg,   \* determine_output_paths: argument svg_output_arg, or NonePath
  cwd,              \* the working directory Path.resolve() starts from
  fs,               \* the paths that exist in the file system
  paths,            \* value returned by determine_output_paths, or NoPaths
  hpc,              \* html_visualizer: position inside build_layout
  positions,        \* build_layout: node id -> NodeLayout
  gw_index,         \* build_layout: place of the gateway at hand in the gateways list
  actor_idx,        \* build_layout: value infer_actor_idx returned for that gateway
  node_id,          \* argument of the innermost call of infer_actor_idx / infer_phase_idx
  frames            \* number of nested calls of infer_actor_idx / infer_phase_idx

vars == <<actors, phases, tasks, gateways, flows_data, graph, reverse_graph, nodes,
          node_keys, lanes, ranks, edges, in_degree, rank_assignment, queue,
          enqueue_count, assign_count, dequeues, pc, result, run, first,
          added_flow, input_path, output_arg, svg_output_arg, cwd, fs, paths,
          hpc, positions, gw_index, actor_idx, node_id, frames>>

doc_vars == <<actors, phases, tasks, gateways, flows_data, graph, reverse_graph>>
bfs_vars == <<in_degree, rank_assignment, queue, enqueue_count, assign_count, dequeues>>
run_vars == <<run, first, added_flow>>
path_vars == <<input_path, output_arg, svg_output_arg, cwd, fs, paths>>
html_vars == <<hpc, positions, gw_index, actor_idx, node_id, frames>>

NoResult == [returned |-> FALSE]
NoFirst == [taken |-> FALSE]
\* A path is the sequence of its parts, "/" first when it is absolute.
NonePath == <<None>>
NoPaths == <<>>

(* ---------------- __init__ and _build_graph ---------------- *)
\* self.graph / self.reverse_graph after _build_graph; a missing key reads as []
\* (the code reads them with .get(key, [])).
RECURSIVE BuildGraph(_, _)
BuildGraph(fl, forward) ==
  IF fl = <<>> THEN [id \in AllIds |-> <<>>]
  ELSE LET n == Len(fl)
           g == BuildGraph(SubSeq(fl, 1, n - 1), forward)
           from_id == fl[n].from
           to_id == fl[n].to
       IN IF from_id # EmptyId /\ to_id # EmptyId
          THEN IF forward
               THEN [g EXCEPT ![from_id] = Append(@, to_id)]
               ELSE [g EXCEPT ![to_id] = Append(@, from_id)]
          ELSE g

\* The engine right after BPMNLayoutEngine(flow) for the given document.
Constructed(a, p, t, g, fl) ==
  /\ actors = a
  /\ phases = p
  /\ tasks = t
  /\ gateways = g
  /\ flows_data = fl
  /\ graph = BuildGraph(fl, TRUE)
  /\ reverse_graph = BuildGraph(fl, FALSE)
  /\ nodes = <<>>
  /\ node_keys = <<>>
  /\ lanes = <<>>
  /\ ranks = <<>>
  /\ edges = <<>>
  /\ in_degree = <<>>
  /\ rank_assignment = <<>>
  /\ queue = <<>>
  /\ enqueue_count = <<>>
  /\ assign_count = <<>>
  /\ dequeues = 0
  /\ pc = "idle"
  /\ result = NoResult

(* ---------------- documents ---------------- *)
ActorList(na) == [i \in 1..na |-> NodeNames[i] \o "_actor"]
\* actor_id of a task: "" when the key is missing (task.get("actor_id", "")).
ActorChoices(na) == Range(ActorList(na)) \cup {EmptyId}

PhaseList(np) == [i \in 1..np |-> NodeNames[i] \o "_phase"]
\* phase_id of a task: None when the key is missing (task.get("phase_id", None)).
PhaseChoices(np) == Range(PhaseList(np)) \cup {None}

TaskList(n, isGw, actorOf, phaseOf, lenOf) ==
  LET ids == SortedSeq({id \in NodeIds(n) : ~isGw[id]}, LAMBDA p, q : IdPos(p) < IdPos(q))
  IN [i \in 1..Len(ids) |-> [id |-> ids[i], actor_id |-> actorOf[ids[i]],
                             phase_id |-> phaseOf[ids[i]],
                             label_len |-> lenOf[ids[i]]]]
GatewayList(n, isGw) ==
  SortedSeq({id \in NodeIds(n) : isGw[id]}, LAMBDA p, q : IdPos(p) < IdPos(q))

FlowRecs(ids) == [from : ids, to : ids]

\* Documents that vary the graph: one actor, short-named tasks of that actor,
\* up to MaxFlows flows between node ids and the unknown id.
InitTopology ==
  \E n \in 0..MaxNodes :
    \E fl \in SeqsUpTo(FlowRecs(NodeIds(n) \cup {GhostId}), MaxFlows) :
      Constructed(ActorList(1), <<>>,
                  TaskList(n, [id \in NodeIds(n) |-> FALSE],
                           [id \in NodeIds(n) |-> ActorList(1)[1]],
                           [id \in NodeIds(n) |-> None],
                           [id \in NodeIds(n) |-> 4]),
                  <<>>, fl)

\* Documents that vary actors, node kinds, task actors and label lengths,
\* with up to MaxGeomFlows flows (empty ids included).
InitGeometry ==
  \E n \in 0..MaxNodes, na \in 0..MaxActors :
    \E isGw \in [NodeIds(n) -> BOOLEAN],
       actorOf \in [NodeIds(n) -> ActorChoices(na)],
       lenOf \in [NodeIds(n) -> LabelLens] :
      \E fl \in SeqsUpTo(FlowRecs(NodeIds(n) \cup {GhostId, EmptyId}), MaxGeomFlows) :
        /\ \A id \in NodeIds(n) : isGw[id] => (actorOf[id] = EmptyId /\ lenOf[id] = 4)
        /\ Constructed(ActorList(na), <<>>,
                       TaskList(n, isGw, actorOf, [id \in NodeIds(n) |-> None], lenOf),
                       GatewayList(n, isGw), fl)

\* Documents with phases: one actor, tasks with or without a phase_id, up to
\* MaxGeomFlows flows between the tasks.
InitPhases ==
  \E n \in 0..MaxNodes, np \in 1..MaxPhases :
    \E phaseOf \in [NodeIds(n) -> PhaseChoices(np)] :
      \E fl \in SeqsUpTo(FlowRecs(NodeIds(n)), MaxGeomFlows) :
        Constructed(ActorList(1), PhaseList(np),
                    TaskList(n, [id \in NodeIds(n) |-> FALSE],
                             [id \in NodeIds(n) |-> ActorList(1)[1]],
                             phaseOf,
                             [id \in NodeIds(n) |-> 4]),
                    <<>>, fl)

\* Documents around one gateway: MaxActors actors, MaxNodes tasks with any
\* actor_id, one gateway, and up to MaxFlows flows that join a task and the gateway.
InitGateway ==
  LET n == MaxNodes + 1
      gw == NodeNames[n]
      isGw == [id \in NodeIds(n) |-> id = gw]
      gwFlows == {f \in FlowRecs(NodeIds(n)) : (f.from = gw) # (f.to = gw)}
  IN \E actorOf \in [NodeIds(n) -> ActorChoices(MaxActors)] :
       \E fl \in SeqsUpTo(gwFlows, MaxFlows) :
         /\ actorOf[gw] = EmptyId
         /\ \A i, j \in 1..Len(fl) : i < j => fl[i] # fl[j]
         /\ Constructed(ActorList(MaxActors), <<>>,
                        TaskList(n, isGw, actorOf, [id \in NodeIds(n) |-> None],
                                 [id \in NodeIds(n) |-> 4]),
                        GatewayList(n, isGw), fl)

\* build_layout of the HTML visualizer is not called.
HtmlIdle ==
  /\ hpc = "idle"
  /\ positions = <<>>
  /\ gw_index = 0
  /\ actor_idx = 0
  /\ node_id = None
  /\ frames = 0

\* The first computation is about to start; determine_output_paths is not called.
FirstRun ==
  /\ run = 1
  /\ first = NoFirst
  /\ added_flow = <<>>
  /\ input_path = <<>>
  /\ output_arg = <<>>
  /\ svg_output_arg = NonePath
  /\ cwd = <<"/">>
  /\ fs = {}
  /\ paths = NoPaths
  /\ HtmlIdle

Init ==
  /\ InitTopology \/ InitGeometry \/ InitPhases \/ InitGateway
  /\ FirstRun

\* The documents for which a second computation is explored.
RerunInit ==
  /\ InitTopology \/ InitGeometry
  /\ FirstRun

(* ---------------- _build_nodes ---------------- *)
TaskIds == {tasks[i].id : i \in 1..Len(tasks)}
TaskOf(id) == tasks[CHOOSE i \in 1..Len(tasks) : tasks[i].id = id]

\* First id of the sequence that is a task's id, or "none".
RECURSIVE FirstTask(_)
FirstTask(ids) ==
  IF ids = <<>> THEN "none"
  ELSE IF ids[1] \in TaskIds THEN ids[1] ELSE FirstTask(Tail(ids))

\* Variant of _infer_gateway_actor: the successors are looked at first.
_infer_gateway_actor_successor_first(gateway_id) ==
  LET pred == FirstTask(reverse_graph[gateway_id])
      succ == FirstTask(graph[gateway_id])
  IN IF succ # "none" THEN TaskOf(succ).actor_id
     ELSE IF pred # "none" THEN TaskOf(pred).actor_id
     ELSE IF Len(actors) > 0 THEN actors[1] ELSE EmptyId

\* Lines 200-217: the actor_id of the first predecessor that is a task, else of
\* the first successor that is a task, else the first actor's id.
_infer_gateway_actor(gateway_id) ==
  LET pred == FirstTask(reverse_graph[gateway_id])
      succ == FirstTask(graph[gateway_id])
  IN IF pred # "none" THEN TaskOf(pred).actor_id
     ELSE IF succ # "none" THEN TaskOf(succ).actor_id
     ELSE IF Len(actors) > 0 THEN actors[1] ELSE EmptyId

\* Lines 219-235: the phase_id of the first predecessor that is a task, else of
\* the first successor that is a task, else None.
_infer_gateway_phase(gateway_id) ==
  LET pred == FirstTask(reverse_graph[gateway_id])
      succ == FirstTask(graph[gateway_id])
  IN IF pred # "none" THEN TaskOf(pred).phase_id
     ELSE IF succ # "none" THEN TaskOf(succ).phase_id
     ELSE None

NewNode(id, kind, label_len, actor_id, phase_id) ==
  [node_id |-> id, kind |-> kind, label_len |-> label_len, actor_id |-> actor_id,
   phase_id |-> phase_id,
   lane_index |-> 0, rank_index |-> 0, order_in_rank |-> 0,
   width |-> 0, height |-> 0, x |-> 0, y |-> 0]

\* Lines 174-198: self.nodes[id] = node keeps the place of a key the dict
\* already holds and appends a new one.
BuildNodes ==
  /\ pc = "idle"
  /\ LET gwIds == Range(gateways)
         keys == [i \in 1..Len(tasks) |-> tasks[i].id] \o gateways
     IN /\ nodes' = [id \in DOMAIN nodes \cup TaskIds \cup gwIds |->
                       IF id \in gwIds
                       THEN NewNode(id, "gateway", 0, _infer_gateway_actor(id),
                                    _infer_gateway_phase(id))
                       ELSE IF id \in TaskIds
                       THEN NewNode(id, "task", TaskOf(id).label_len, TaskOf(id).actor_id,
                                    TaskOf(id).phase_id)
                       ELSE nodes[id]]
        /\ node_keys' = node_keys \o SelectSeq(keys, LAMBDA k : k \notin Range(node_keys))
  /\ pc' = "assign_lanes"
  /\ UNCHANGED <<doc_vars, lanes, ranks, edges, bfs_vars, result, run_vars, path_vars, html_vars>>

(* ---------------- _assign_lanes ---------------- *)
\* actor_to_lane.get(actor_id, 0): the last index holding the id wins.
ActorToLane(actor_id) ==
  LET hits == {i \in 1..Len(actors) : actors[i] = actor_id}
  IN IF hits = {} THEN 0 ELSE SetMax(hits) - 1

AssignLanes ==
  /\ pc = "assign_lanes"
  /\ nodes' = [id \in DOMAIN nodes |->
                 [nodes[id] EXCEPT !.lane_index = ActorToLane(nodes[id].actor_id)]]
  /\ lanes' = [i \in 1..Len(actors) |->
                 [lane_index |-> i - 1, actor_id |-> actors[i], y |-> 0, height |-> 0]]
  /\ pc' = "assign_ranks"
  /\ UNCHANGED <<doc_vars, node_keys, ranks, edges, bfs_vars, result, run_vars, path_vars, html_vars>>

(* ---------------- _assign_ranks_by_topological_sort ---------------- *)
\* Lines 301-311: in-degrees and the seeding of the queue.  all_node_ids is a
\* Python set of strings, so the order of "for nid in all_node_ids" is arbitrary.
AssignRanksInit ==
  /\ pc = "assign_ranks"
  /\ LET all_node_ids == DOMAIN nodes
         deg == [nid \in all_node_ids |-> Len(reverse_graph[nid])]
     IN \E order \in Orders(all_node_ids) :
          /\ in_degree' = deg
          /\ queue' = SelectSeq(order, LAMBDA nid : deg[nid] = 0)
          /\ rank_assignment' = [nid \in {m \in all_node_ids : deg[m] = 0} |-> 0]
          /\ enqueue_count' = [nid \in all_node_ids |-> IF deg[nid] = 0 THEN 1 ELSE 0]
          /\ assign_count' = [nid \in all_node_ids |-> IF deg[nid] = 0 THEN 1 ELSE 0]
          /\ dequeues' = 0
  /\ pc' = "bfs"
  /\ UNCHANGED <<doc_vars, nodes, node_keys, lanes, ranks, edges, result, run_vars, path_vars, html_vars>>

\* dict[key] = value on a dict modelled as a function.
DictSet(d, key, value) ==
  [k \in DOMAIN d \cup {key} |-> IF k = key THEN value ELSE d[k]]

\* Variant of VisitSuccessors: a successor gets the rank of current.
RECURSIVE VisitSuccessorsSameRank(_, _, _)
VisitSuccessorsSameRank(succs, current_rank, st) ==
  IF succs = <<>> \/ st.raised THEN st
  ELSE LET successor == succs[1]
       IN IF successor \notin DOMAIN st.in_degree
          THEN [st EXCEPT !.raised = TRUE]
          ELSE LET d == st.in_degree[successor] - 1
                   st1 == [st EXCEPT !.in_degree[successor] = d]
                   st2 == IF d = 0
                          THEN [st1 EXCEPT
                                  !.rank_assignment =
                                     DictSet(@, successor, current_rank),
                                  !.queue = Append(@, successor),
                                  !.enqueue_count[successor] = @ + 1,
                                  !.assign_count[successor] = @ + 1]
                          ELSE st1
               IN VisitSuccessorsSameRank(Tail(succs), current_rank, st2)

\* Variant of VisitSuccessors: the rank is propagated at every visit of a
\* successor, rank(successor) = max(rank(successor), rank(current) + 1).
RECURSIVE VisitSuccessorsPropagating(_, _, _)
VisitSuccessorsPropagating(succs, current_rank, st) ==
  IF succs = <<>> \/ st.raised THEN st
  ELSE LET successor == succs[1]
       IN IF successor \notin DOMAIN st.in_degree
          THEN [st EXCEPT !.raised = TRUE]
          ELSE LET d == st.in_degree[successor] - 1
                   old == IF successor \in DOMAIN st.rank_assignment
                          THEN st.rank_assignment[successor] ELSE 0
                   st1 == [st EXCEPT
                             !.in_degree[successor] = d,
                             !.rank_assignment =
                                DictSet(@, successor, Max2(old, current_rank + 1)),
                             !.assign_count[successor] = @ + 1]
                   st2 == IF d = 0
                          THEN [st1 EXCEPT !.queue = Append(@, successor),
                                           !.enqueue_count[successor] = @ + 1]
                          ELSE st1
               IN VisitSuccessorsPropagating(Tail(succs), current_rank, st2)

\* Variant of VisitSuccessors: a successor gets its rank at its first visit.
RECURSIVE VisitSuccessorsFirstVisit(_, _, _)
VisitSuccessorsFirstVisit(succs, current_rank, st) ==
  IF succs = <<>> \/ st.raised THEN st
  ELSE LET successor == succs[1]
       IN IF successor \notin DOMAIN st.in_degree
          THEN [st EXCEPT !.raised = TRUE]
          ELSE LET d == st.in_degree[successor] - 1
                   seen == successor \in DOMAIN st.rank_assignment
                   st1 == [st EXCEPT
                             !.in_degree[successor] = d,
                             !.rank_assignment =
                                IF seen THEN @ ELSE DictSet(@, successor, current_rank + 1),
                             !.assign_count[successor] = IF seen THEN @ ELSE @ + 1]
                   st2 == IF d = 0
                          THEN [st1 EXCEPT !.queue = Append(@, successor),
                                           !.enqueue_count[successor] = @ + 1]
                          ELSE st1
               IN VisitSuccessorsFirstVisit(Tail(succs), current_rank, st2)

\* Lines 317-322: the for loop over the successors of current.  in_degree has
\* the node ids as its keys, so in_degree[successor] raises KeyError for any
\* other successor and the loop is left at once.
RECURSIVE VisitSuccessors(_, _, _)
VisitSuccessors(succs, current_rank, st) ==
  IF succs = <<>> \/ st.raised THEN st
  ELSE LET successor == succs[1]
       IN IF successor \notin DOMAIN st.in_degree
          THEN [st EXCEPT !.raised = TRUE]
          ELSE LET d == st.in_degree[successor] - 1
                   st1 == [st EXCEPT !.in_degree[successor] = d]
                   st2 == IF d = 0
                          THEN [st1 EXCEPT
                                  !.rank_assignment =
                                     DictSet(@, successor, current_rank + 1),
                                  !.queue = Append(@, successor),
                                  !.enqueue_count[successor] = @ + 1,
                                  !.assign_count[successor] = @ + 1]
                          ELSE st1
               IN VisitSuccessors(Tail(succs), current_rank, st2)

\* Lines 313-322: one iteration of "while queue".
BFSStep ==
  /\ pc = "bfs"
  /\ queue # <<>>
  /\ LET current == Head(queue)
         st == VisitSuccessors(graph[current], rank_assignment[current],
                 [in_degree |-> in_degree, rank_assignment |-> rank_assignment,
                  queue |-> Tail(queue), enqueue_count |-> enqueue_count,
                  assign_count |-> assign_count, raised |-> FALSE])
     IN /\ in_degree' = st.in_degree
        /\ rank_assignment' = st.rank_assignment
        /\ queue' = st.queue
        /\ enqueue_count' = st.enqueue_count
        /\ assign_count' = st.assign_count
        /\ dequeues' = dequeues + 1
        /\ pc' = IF st.raised THEN "raised" ELSE "bfs"
  /\ UNCHANGED <<doc_vars, nodes, node_keys, lanes, ranks, edges, result, run_vars, path_vars, html_vars>>

\* Variant of UnreachedRanks: unreached nodes are put at the largest assigned rank.
UnreachedRanksAtMax(order, ra) ==
  LET max_rank == IF DOMAIN ra # {} THEN SetMax({ra[nid] : nid \in DOMAIN ra}) ELSE 0
  IN [nid \in Range(order) |-> IF nid \in DOMAIN ra THEN ra[nid] ELSE max_rank]

\* Variant of UnreachedRanks: unreached nodes get successive ranks in scan order.
UnreachedRanksSuccessive(order, ra) ==
  LET max_rank == IF DOMAIN ra # {} THEN SetMax({ra[nid] : nid \in DOMAIN ra}) ELSE 0
      nth(nid) == Cardinality({i \in 1..IndexOf(order, nid) : order[i] \notin DOMAIN ra})
  IN [nid \in Range(order) |-> IF nid \in DOMAIN ra THEN ra[nid] ELSE max_rank + nth(nid)]

\* Variant of UnreachedRanks: with nothing assigned the largest rank counts as -1.
UnreachedRanksFromZero(order, ra) ==
  LET max_rank == IF DOMAIN ra # {} THEN SetMax({ra[nid] : nid \in DOMAIN ra}) ELSE 0 - 1
  IN [nid \in Range(order) |-> IF nid \in DOMAIN ra THEN ra[nid] ELSE max_rank + 1]

\* Lines 325-328: every node the loop did not reach gets the largest assigned
\* rank + 1 (0 + 1 when nothing was assigned); order is the order in which
\* "for nid in all_node_ids" visits the set.
UnreachedRanks(order, ra) ==
  LET max_rank == IF DOMAIN ra # {} THEN SetMax({ra[nid] : nid \in DOMAIN ra}) ELSE 0
  IN [nid \in Range(order) |-> IF nid \in DOMAIN ra THEN ra[nid] ELSE max_rank + 1]

\* Lines 335-344: one LayoutRank per index 0..max_rank.
RankList(nd) ==
  LET max_rank == IF DOMAIN nd # {}
                  THEN SetMax({nd[nid].rank_index : nid \in DOMAIN nd})
                  ELSE 0
  IN [i \in 1..(max_rank + 1) |-> [rank_index |-> i - 1, x |-> 0, width |-> 0]]

\* Lines 324-344, after the while loop has ended.  The set is iterated again;
\* its order is again arbitrary.
AssignRanksFinish ==
  /\ pc = "bfs"
  /\ queue = <<>>
  /\ \E order \in Orders(DOMAIN nodes) :
       LET final == UnreachedRanks(order, rank_assignment)
           nd == [nid \in DOMAIN nodes |-> [nodes[nid] EXCEPT !.rank_index = final[nid]]]
       IN /\ rank_assignment' = final
          /\ assign_count' = [nid \in DOMAIN nodes |->
                                IF nid \in DOMAIN rank_assignment THEN assign_count[nid]
                                ELSE assign_count[nid] + 1]
          /\ nodes' = nd
          /\ ranks' = RankList(nd)
  /\ pc' = "order_nodes"
  /\ UNCHANGED <<doc_vars, node_keys, lanes, edges, in_degree, queue, enqueue_count,
                 dequeues, result, run_vars, path_vars, html_vars>>

(* ---------------- _order_nodes_in_rank ---------------- *)
\* Variant of SortedRank: the nodes of a rank are sorted by node_id only.
SortedRankById(nd, rank_idx) ==
  SortedSeq({id \in DOMAIN nd : nd[id].rank_index = rank_idx},
            LAMBDA p, q : IdPos(p) < IdPos(q))

\* sorted(nodes_in_rank, key=lambda n: (n.lane_index, n.node_id)) as a sequence of ids.
SortedRank(nd, rank_idx) ==
  SortedSeq({id \in DOMAIN nd : nd[id].rank_index = rank_idx},
            LAMBDA p, q : \/ nd[p].lane_index < nd[q].lane_index
                          \/ /\ nd[p].lane_index = nd[q].lane_index
                             /\ IdPos(p) < IdPos(q))

OrderNodesInRank ==
  /\ pc = "order_nodes"
  /\ nodes' = [id \in DOMAIN nodes |->
                 [nodes[id] EXCEPT !.order_in_rank =
                    IndexOf(SortedRank(nodes, nodes[id].rank_index), id) - 1]]
  /\ pc' = "node_sizes"
  /\ UNCHANGED <<doc_vars, node_keys, lanes, ranks, edges, bfs_vars, result, run_vars, path_vars, html_vars>>

(* ---------------- _calculate_node_sizes ---------------- *)
NodeWidth(node) ==
  IF node.kind = "gateway" THEN gateway_size
  ELSE Max2(task_base_width,
            Min2(task_max_width, label_base_width + node.label_len * label_char_width))

NodeHeight(node) ==
  IF node.kind = "gateway" THEN gateway_size ELSE task_base_height

CalculateNodeSizes ==
  /\ pc = "node_sizes"
  /\ nodes' = [id \in DOMAIN nodes |->
                 [nodes[id] EXCEPT !.width = NodeWidth(nodes[id]),
                                   !.height = NodeHeight(nodes[id])]]
  /\ pc' = "rank_widths"
  /\ UNCHANGED <<doc_vars, node_keys, lanes, ranks, edges, bfs_vars, result, run_vars, path_vars, html_vars>>

(* ---------------- _calculate_rank_widths ---------------- *)
\* Variant of RankWidth: the width of the rank's node with the smallest id.
RankWidthOfFirstNode(nd, rank_idx) ==
  LET members == {id \in DOMAIN nd : nd[id].rank_index = rank_idx}
  IN IF members = {} THEN task_base_width
     ELSE nd[CHOOSE id \in members : \A m \in members : IdPos(id) <= IdPos(m)].width

\* rank_max_width.get(rank_index, task_base_width): the running maximum starts at 0.
RankWidth(nd, rank_idx) ==
  LET members == {id \in DOMAIN nd : nd[id].rank_index = rank_idx}
  IN IF members = {} THEN task_base_width
     ELSE SetMax({0} \cup {nd[id].width : id \in members})

CalculateRankWidths ==
  /\ pc = "rank_widths"
  /\ ranks' = [i \in 1..Len(ranks) |->
                 [ranks[i] EXCEPT !.width = RankWidth(nodes, ranks[i].rank_index)]]
  /\ pc' = "lane_heights"
  /\ UNCHANGED <<doc_vars, nodes, node_keys, lanes, edges, bfs_vars, result, run_vars, path_vars, html_vars>>

(* ---------------- _calculate_lane_heights ---------------- *)
\* Variant of LaneHeight: the content height without the padding.
LaneHeightNoPadding(nd, lane_idx) ==
  LET members == {id \in DOMAIN nd : nd[id].lane_index = lane_idx}
      node_count == Cardinality(members)
      max_node_height == SetMax({0} \cup {nd[id].height : id \in members})
      total_content_height == max_node_height * node_count
                              + node_spacing_y * Max2(0, node_count - 1)
  IN IF node_count = 0 THEN lane_min_height
     ELSE Max2(lane_min_height, total_content_height)

\* Lines 411-435: from the number of nodes of the lane and their largest height.
LaneHeight(nd, lane_idx) ==
  LET members == {id \in DOMAIN nd : nd[id].lane_index = lane_idx}
      node_count == Cardinality(members)
      max_node_height == SetMax({0} \cup {nd[id].height : id \in members})
      total_content_height == max_node_height * node_count
                              + node_spacing_y * Max2(0, node_count - 1)
  IN IF node_count = 0 THEN lane_min_height
     ELSE Max2(lane_min_height, total_content_height + lane_padding_y * 2)

CalculateLaneHeights ==
  /\ pc = "lane_heights"
  /\ lanes' = [i \in 1..Len(lanes) |->
                 [lanes[i] EXCEPT !.height = LaneHeight(nodes, lanes[i].lane_index)]]
  /\ pc' = "coordinates"
  /\ UNCHANGED <<doc_vars, nodes, node_keys, ranks, edges, bfs_vars, result, run_vars, path_vars, html_vars>>

(* ---------------- _calculate_coordinates ---------------- *)
\* Variant of RankXs: the ranks follow each other without rank_spacing.
RankXsNoSpacing(rk) ==
  LET before(k) == SumSeq([j \in 1..(k - 1) |-> rk[j].width])
  IN [i \in 1..Len(rk) |-> [rk[i] EXCEPT !.x = margin_x + lane_header_width + before(i)]]

\* Lines 444-447: x of every rank, cumulated in rank_index order.
RankXs(rk) ==
  LET idx == SortedSeq(1..Len(rk), LAMBDA p, q : \/ rk[p].rank_index < rk[q].rank_index
                                                 \/ /\ rk[p].rank_index = rk[q].rank_index
                                                    /\ p < q)
      before(k) == SumSeq([j \in 1..(k - 1) |-> rk[idx[j]].width + rank_spacing])
  IN [i \in 1..Len(rk) |->
        [rk[i] EXCEPT !.x = margin_x + lane_header_width + before(IndexOf(idx, i))]]

\* Variant of LaneYs: lane_padding_y is left between two lanes.
LaneYsPadded(ln) ==
  LET before(k) == SumSeq([j \in 1..(k - 1) |-> ln[j].height + lane_padding_y])
  IN [i \in 1..Len(ln) |-> [ln[i] EXCEPT !.y = margin_y + before(i)]]

\* Lines 450-453: y of every lane, cumulated in lane_index order.
LaneYs(ln) ==
  LET idx == SortedSeq(1..Len(ln), LAMBDA p, q : \/ ln[p].lane_index < ln[q].lane_index
                                                 \/ /\ ln[p].lane_index = ln[q].lane_index
                                                    /\ p < q)
      before(k) == SumSeq([j \in 1..(k - 1) |-> ln[idx[j]].height])
  IN [i \in 1..Len(ln) |-> [ln[i] EXCEPT !.y = margin_y + before(IndexOf(idx, i))]]

\* next((r for r in seq if r.<field> == value), None): index of the first hit, 0 for None.
FirstRank(rk, rank_idx) ==
  LET hits == {i \in 1..Len(rk) : rk[i].rank_index = rank_idx}
  IN IF hits = {} THEN 0 ELSE CHOOSE i \in hits : \A j \in hits : i <= j
FirstLane(ln, lane_idx) ==
  LET hits == {i \in 1..Len(ln) : ln[i].lane_index = lane_idx}
  IN IF hits = {} THEN 0 ELSE CHOOSE i \in hits : \A j \in hits : i <= j

\* Lines 457-462.
NodeX(nd, rk, id) ==
  LET r == FirstRank(rk, nd[id].rank_index)
  IN IF r # 0 THEN rk[r].x + Half(rk[r].width - nd[id].width) ELSE margin_x

\* Variant of NodeY: the stack is centred on the top edge of the lane.
NodeYAroundLaneTop(nd, keys, ln, id) ==
  LET l == FirstLane(ln, nd[id].lane_index)
      cell == {i \in 1..Len(keys) : /\ nd[keys[i]].rank_index = nd[id].rank_index
                                    /\ nd[keys[i]].lane_index = nd[id].lane_index}
      sorted == SortedSeq(cell, LAMBDA p, q :
                   \/ nd[keys[p]].order_in_rank < nd[keys[q]].order_in_rank
                   \/ /\ nd[keys[p]].order_in_rank = nd[keys[q]].order_in_rank
                      /\ p < q)
      nodes_in_same_rank_lane == [i \in 1..Len(sorted) |-> keys[sorted[i]]]
      total_nodes == Len(nodes_in_same_rank_lane)
      node_index == IndexOf(nodes_in_same_rank_lane, id)
      total_height == SumSeq([i \in 1..total_nodes |-> nd[nodes_in_same_rank_lane[i]].height])
                      + node_spacing_y * Max2(0, total_nodes - 1)
      start_y == ln[l].y - Half(total_height)
      offset_y == SumSeq([i \in 1..(node_index - 1) |->
                            nd[nodes_in_same_rank_lane[i]].height + node_spacing_y])
  IN IF l # 0 THEN start_y + offset_y ELSE margin_y

\* Lines 465-492: the nodes of the same rank and lane in dict order, stably sorted
\* by order_in_rank, stacked around the middle of the lane.
NodeY(nd, keys, ln, id) ==
  LET l == FirstLane(ln, nd[id].lane_index)
      cell == {i \in 1..Len(keys) : /\ nd[keys[i]].rank_index = nd[id].rank_index
                                    /\ nd[keys[i]].lane_index = nd[id].lane_index}
      sorted == SortedSeq(cell, LAMBDA p, q :
                   \/ nd[keys[p]].order_in_rank < nd[keys[q]].order_in_rank
                   \/ /\ nd[keys[p]].order_in_rank = nd[keys[q]].order_in_rank
                      /\ p < q)
      nodes_in_same_rank_lane == [i \in 1..Len(sorted) |-> keys[sorted[i]]]
      total_nodes == Len(nodes_in_same_rank_lane)
      node_index == IndexOf(nodes_in_same_rank_lane, id)
      total_height == SumSeq([i \in 1..total_nodes |-> nd[nodes_in_same_rank_lane[i]].height])
                      + node_spacing_y * Max2(0, total_nodes - 1)
      start_y == ln[l].y + Half(ln[l].height - total_height)
      offset_y == SumSeq([i \in 1..(node_index - 1) |->
                            nd[nodes_in_same_rank_lane[i]].height + node_spacing_y])
  IN IF l # 0 THEN start_y + offset_y ELSE margin_y

CalculateCoordinates ==
  /\ pc = "coordinates"
  /\ LET rk == RankXs(ranks)
         ln == LaneYs(lanes)
     IN /\ ranks' = rk
        /\ lanes' = ln
        /\ nodes' = [id \in DOMAIN nodes |->
                       [nodes[id] EXCEPT !.x = NodeX(nodes, rk, id),
                                         !.y = NodeY(nodes, node_keys, ln, id)]]
  /\ pc' = "route_edges"
  /\ UNCHANGED <<doc_vars, node_keys, edges, bfs_vars, result, run_vars, path_vars, html_vars>>

(* ---------------- _route_edges ---------------- *)
\* Variant of _calculate_orthogonal_waypoints: every edge inside one lane is direct.
_calculate_orthogonal_waypoints_lane_only(start_x, start_y, end_x, end_y, from_node, to_node) ==
  IF from_node.lane_index = to_node.lane_index
  THEN <<(<<start_x, start_y>>), (<<end_x, end_y>>)>>
  ELSE LET mid_x == Half(start_x + end_x)
       IN <<(<<start_x, start_y>>), (<<mid_x, start_y>>), (<<mid_x, end_y>>),
            (<<end_x, end_y>>)>>

\* Lines 539-578.
_calculate_orthogonal_waypoints(start_x, start_y, end_x, end_y, from_node, to_node) ==
  IF /\ from_node.lane_index = to_node.lane_index
     /\ Abs(from_node.rank_index - to_node.rank_index) <= 1
  THEN <<(<<start_x, start_y>>), (<<end_x, end_y>>)>>
  ELSE LET mid_x == Half(start_x + end_x)
       IN <<(<<start_x, start_y>>), (<<mid_x, start_y>>), (<<mid_x, end_y>>),
            (<<end_x, end_y>>)>>

\* Variant of RoutedEdge: the edge leaves the source at its left side.
RoutedEdgeFromLeft(nd, flow) ==
  LET from_node == nd[flow.from]
      to_node == nd[flow.to]
      start_x == from_node.x
      start_y == from_node.y + Half(from_node.height)
      end_x == to_node.x
      end_y == to_node.y + Half(to_node.height)
  IN [from_node |-> flow.from, to_node |-> flow.to,
      waypoints |-> _calculate_orthogonal_waypoints(start_x, start_y, end_x, end_y,
                                                    from_node, to_node)]

\* Lines 510-533: the edge of one flow whose two ends are nodes.
RoutedEdge(nd, flow) ==
  LET from_node == nd[flow.from]
      to_node == nd[flow.to]
      start_x == from_node.x + from_node.width
      start_y == from_node.y + Half(from_node.height)
      end_x == to_node.x
      end_y == to_node.y + Half(to_node.height)
  IN [from_node |-> flow.from, to_node |-> flow.to,
      waypoints |-> _calculate_orthogonal_waypoints(start_x, start_y, end_x, end_y,
                                                    from_node, to_node)]

\* Lines 502-534: flows with an end that is no key of self.nodes are skipped.
RECURSIVE RouteAll(_, _)
RouteAll(nd, fl) ==
  IF fl = <<>> THEN <<>>
  ELSE IF fl[1].from \notin DOMAIN nd \/ fl[1].to \notin DOMAIN nd
       THEN RouteAll(nd, Tail(fl))
       ELSE <<RoutedEdge(nd, fl[1])>> \o RouteAll(nd, Tail(fl))

\* Variant of RoutedEdges: the edges are appended to those self.edges holds.
RoutedEdgesAppended(old_edges, nd, fl) == old_edges \o RouteAll(nd, fl)

\* Lines 500-534: self.edges is emptied (line 500), then filled.
RoutedEdges(old_edges, nd, fl) == RouteAll(nd, fl)

RouteEdges ==
  /\ pc = "route_edges"
  /\ edges' = RoutedEdges(edges, nodes, flows_data)
  /\ pc' = "convert"
  /\ UNCHANGED <<doc_vars, nodes, node_keys, lanes, ranks, bfs_vars, result, run_vars, path_vars, html_vars>>

(* ---------------- calculate_diagram_size and the return value ---------------- *)
default_canvas_width == 800
default_canvas_height == 600

\* Variant of calculate_diagram_size: the default size is returned only when
\* there are no ranks.
calculate_diagram_size_ranks_only(rk, ln) ==
  IF rk = <<>> THEN <<default_canvas_width, default_canvas_height>>
  ELSE LET total_rank_width == SumSeq([i \in 1..Len(rk) |-> rk[i].width])
           total_spacing == rank_spacing * Max2(0, Len(rk) - 1)
           total_lane_height == SumSeq([i \in 1..Len(ln) |-> ln[i].height])
       IN <<margin_x * 2 + lane_header_width + total_rank_width + total_spacing,
            margin_y * 2 + total_lane_height>>

\* Lines 636-660.
calculate_diagram_size(rk, ln) ==
  IF rk = <<>> \/ ln = <<>> THEN <<default_canvas_width, default_canvas_height>>
  ELSE LET total_rank_width == SumSeq([i \in 1..Len(rk) |-> rk[i].width])
           total_spacing == rank_spacing * Max2(0, Len(rk) - 1)
           total_lane_height == SumSeq([i \in 1..Len(ln) |-> ln[i].height])
       IN <<margin_x * 2 + lane_header_width + total_rank_width + total_spacing,
            margin_y * 2 + total_lane_height>>

\* Lines 606-634: conversion to BPMNNodeLayout / BPMNLaneLayout and return.
Return ==
  /\ pc = "convert"
  /\ LET total_width == calculate_diagram_size(ranks, lanes)[1]
     IN result' =
          [returned |-> TRUE,
           node_layouts |->
             [id \in DOMAIN nodes |->
                [node_id |-> nodes[id].node_id, x |-> nodes[id].x, y |-> nodes[id].y,
                 width |-> nodes[id].width, height |-> nodes[id].height,
                 kind |-> nodes[id].kind, lane_id |-> nodes[id].actor_id]],
           lane_layouts |->
             [i \in 1..Len(lanes) |->
                [lane_id |-> lanes[i].actor_id, x |-> margin_x, y |-> lanes[i].y,
                 width |-> total_width - 2 * margin_x, height |-> lanes[i].height]]]
  /\ pc' = "done"
  /\ UNCHANGED <<doc_vars, nodes, node_keys, lanes, ranks, edges, bfs_vars, run_vars, path_vars, html_vars>>

(* ---------------- a second computation ---------------- *)
\* What the first computation left behind, kept for comparison.
Snapshot ==
  [taken |-> TRUE, pc |-> pc, nodes |-> nodes, node_keys |-> node_keys, lanes |-> lanes,
   ranks |-> ranks, edges |-> edges, result |-> result]

\* A new BPMNLayoutEngine for the same actors, tasks and gateways and the flows fl.
FreshEngine(fl) ==
  /\ flows_data' = fl
  /\ graph' = BuildGraph(fl, TRUE)
  /\ reverse_graph' = BuildGraph(fl, FALSE)
  /\ nodes' = <<>>
  /\ node_keys' = <<>>
  /\ lanes' = <<>>
  /\ ranks' = <<>>
  /\ edges' = <<>>
  /\ in_degree' = <<>>
  /\ rank_assignment' = <<>>
  /\ queue' = <<>>
  /\ enqueue_count' = <<>>
  /\ assign_count' = <<>>
  /\ dequeues' = 0
  /\ pc' = "idle"
  /\ result' = NoResult
  /\ UNCHANGED <<actors, phases, tasks, gateways, path_vars, html_vars>>

\* The first computation ended (returned or raised); an engine is built for an
\* equal document and calculate_layout is run on it.
Reconstruct ==
  /\ run = 1
  /\ pc \in {"done", "raised"}
  /\ first' = Snapshot
  /\ run' = 2
  /\ added_flow' = <<>>
  /\ FreshEngine(flows_data)

\* The flow lists of the explored documents (see InitTopology, InitGeometry).
IsTopologyDoc(fl) ==
  /\ actors = ActorList(1)
  /\ phases = <<>>
  /\ gateways = <<>>
  /\ \A i \in 1..Len(tasks) : tasks[i].actor_id = actors[1] /\ tasks[i].label_len = 4
  /\ \A i \in 1..Len(fl) : fl[i].from # EmptyId /\ fl[i].to # EmptyId
  /\ Len(fl) <= MaxFlows
IsGeometryDoc(fl) == Len(fl) <= MaxGeomFlows

\* The first computation returned; an engine is built for the document with one
\* more flow, which names an id that is no node, and calculate_layout is run on it.
ReconstructWithDanglingFlow ==
  /\ run = 1
  /\ pc = "done"
  /\ \E f \in FlowRecs(DOMAIN nodes \cup {GhostId}) :
       /\ f.from = GhostId \/ f.to = GhostId
       /\ IsTopologyDoc(Append(flows_data, f)) \/ IsGeometryDoc(Append(flows_data, f))
       /\ first' = Snapshot
       /\ run' = 2
       /\ added_flow' = <<f>>
       /\ FreshEngine(Append(flows_data, f))

Next ==
  \/ BuildNodes
  \/ AssignLanes
  \/ AssignRanksInit
  \/ BFSStep
  \/ AssignRanksFinish
  \/ OrderNodesInRank
  \/ CalculateNodeSizes
  \/ CalculateRankWidths
  \/ CalculateLaneHeights
  \/ CalculateCoordinates
  \/ RouteEdges
  \/ Return

\* One computation of calculate_layout on each document.
Spec == Init /\ [][Next]_vars

RerunNext ==
  \/ Next
  \/ Reconstruct
  \/ ReconstructWithDanglingFlow

\* A computation followed by a second one on a new engine.
RerunSpec == RerunInit /\ [][RerunNext]_vars

\* calculate_layout has returned and is called again on the same engine: the
\* node table and the lane, rank and edge lists are what the first call left.
CallAgain ==
  /\ run = 1
  /\ pc = "done"
  /\ first' = Snapshot
  /\ run' = 2
  /\ added_flow' = <<>>
  /\ in_degree' = <<>>
  /\ rank_assignment' = <<>>
  /\ queue' = <<>>
  /\ enqueue_count' = <<>>
  /\ assign_count' = <<>>
  /\ dequeues' = 0
  /\ pc' = "idle"
  /\ result' = NoResult
  /\ UNCHANGED <<doc_vars, nodes, node_keys, lanes, ranks, edges, path_vars, html_vars>>

RecallNext ==
  \/ Next
  \/ CallAgain

\* A computation followed by a second call on the same engine.
RecallSpec == RerunInit /\ [][RecallNext]_vars

(* ---------------- determine_output_paths (bpmn_converter.py) ---------------- *)
\* Directory names of the explored paths, and the file names.
DirNames == {"runs", "r1", "d", ".."}
InputName == "flow.json"
OutputNames == {"flow.bpmn", "out.xml"}
\* Path.stem of the explored file names: the name without its last suffix.
Stem(name) ==
  CASE name = "flow.bpmn" -> "flow"
    [] name = "out.xml" -> "out"
    [] name = "flow.json" -> "flow"
    [] OTHER -> name

IsAbsolute(path) == path # <<>> /\ path[1] = "/"
\* Path.parent: the parent of "/" is "/", the parent of a single name is ".".
Parent(path) == IF path = <<"/">> THEN path ELSE SubSeq(path, 1, Len(path) - 1)

\* ".." steps taken lexically on an absolute path (no symbolic links in fs).
RECURSIVE Normalized(_, _)
Normalized(done, rest) ==
  IF rest = <<>> THEN done
  ELSE IF rest[1] = ".." THEN Normalized(Parent(done), Tail(rest))
  ELSE Normalized(Append(done, rest[1]), Tail(rest))

\* Path.resolve(): absolute, without "..".
Resolve(path, dir) ==
  IF IsAbsolute(path) THEN Normalized(<<"/">>, Tail(path))
  ELSE Normalized(dir, path)

\* Lines 743-772 for the resolved input path parts.
determine_output_paths(parts, out, svg_out, existing) ==
  LET hits == {i \in 1..Len(parts) : parts[i] = "runs" /\ i < Len(parts)}
      i == CHOOSE k \in hits : \A m \in hits : k <= m
      run_dir == SubSeq(parts, 1, i + 1)
      svg_default == Append(Parent(out), Stem(out[Len(out)]) \o "-bpmn.svg")
  IN IF hits # {} /\ run_dir \in existing
     THEN <<run_dir \o <<"output", "flow.bpmn">>, run_dir \o <<"output", "flow-bpmn.svg">>>>
     ELSE <<out, IF svg_out # NonePath THEN svg_out ELSE svg_default>>

\* All leading parts of a path, the path included.
Prefixes(path) == {SubSeq(path, 1, k) : k \in 1..Len(path)}

\* The engine is not used; the arguments, the working directory and the file
\* system are chosen.
PathInit ==
  /\ Constructed(<<>>, <<>>, <<>>, <<>>, <<>>)
  /\ run = 1
  /\ first = NoFirst
  /\ added_flow = <<>>
  /\ paths = NoPaths
  /\ \E dirs \in SeqsUpTo(DirNames, MaxDirs), anchored \in BOOLEAN :
       input_path = (IF anchored THEN <<"/">> ELSE <<>>) \o dirs \o <<InputName>>
  /\ cwd \in {<<"/">>, <<"/", "runs", "r1">>, <<"/", "d">>}
  /\ \E deepest \in SeqsUpTo(DirNames \ {".."}, MaxDirs - 1) :
       fs = Prefixes(cwd) \cup Prefixes(<<"/">> \o deepest)
  /\ \E name \in OutputNames : output_arg \in {<<name>>, <<"output", name>>}
  /\ svg_output_arg \in {NonePath, <<"pictures", "flow.svg">>}
  /\ HtmlIdle

DetermineOutputPaths ==
  /\ paths = NoPaths
  /\ input_path # <<>>
  /\ paths' = determine_output_paths(Resolve(input_path, cwd), output_arg,
                                     svg_output_arg, fs)
  /\ UNCHANGED <<doc_vars, nodes, node_keys, lanes, ranks, edges, bfs_vars, pc, result,
                 run_vars, input_path, output_arg, svg_output_arg, cwd, fs, html_vars>>

PathNext == DetermineOutputPaths

PathSpec == PathInit /\ [][PathNext]_vars

(* ---------------- build_layout (html_visualizer.py) ---------------- *)
LANE_HEIGHT == 140
LANE_HEADER_WIDTH == 150
TASK_WIDTH == 180
TASK_HEIGHT == 48
COLUMN_GAP == 60
MARGIN_X == 40
MARGIN_Y == 40

\* determine_orders and dict.get(id, 0): the last index holding the id, else 0.
OrderGet(items, id) ==
  LET hits == {i \in 1..Len(items) : items[i] = id}
  IN IF hits = {} THEN 0 ELSE SetMax(hits) - 1

\* The flows that adjoin the node, as places in flow["flows"].
Adjoining(id) ==
  {i \in 1..Len(flows_data) : flows_data[i].from = id \/ flows_data[i].to = id}
\* The other end of the first adjoining flow: link["to"] when the node is its
\* "from", else link["from"] (lines 55-59 and 68-72).
FirstNeighbour(id) ==
  LET i == CHOOSE k \in Adjoining(id) : \A m \in Adjoining(id) : k <= m
  IN IF flows_data[i].from = id THEN flows_data[i].to ELSE flows_data[i].from

\* Lines 104-115 and 119-133: the NodeLayout of a task and of a gateway.
TaskPosition(task) ==
  LET a == OrderGet(actors, task.actor_id)
      ph == OrderGet(phases, task.phase_id)
      lane_top == MARGIN_Y + a * LANE_HEIGHT
  IN [node_id |-> task.id, kind |-> "task", actor_idx |-> a, phase_idx |-> ph,
      x |-> MARGIN_X + LANE_HEADER_WIDTH + ph * (TASK_WIDTH + COLUMN_GAP),
      y |-> lane_top + Half(LANE_HEIGHT - TASK_HEIGHT)]
GatewayPosition(id, a, ph) ==
  LET lane_top == MARGIN_Y + a * LANE_HEIGHT
  IN [node_id |-> id, kind |-> "gateway", actor_idx |-> a, phase_idx |-> ph,
      x |-> MARGIN_X + LANE_HEADER_WIDTH + ph * (TASK_WIDTH + COLUMN_GAP)
            + Half(TASK_WIDTH),
      y |-> lane_top + Half(LANE_HEIGHT)]

\* Documents for build_layout: MaxActors actors, MaxPhases phases, tasks with
\* an actor and with or without a phase, gateways, and up to MaxLinks flows
\* between node ids and the unknown id.
HtmlInit ==
  /\ \E n \in 0..MaxNodes :
       \E isGw \in [NodeIds(n) -> BOOLEAN],
          phaseOf \in [NodeIds(n) -> PhaseChoices(MaxPhases)] :
         \E fl \in SeqsUpTo(FlowRecs(NodeIds(n) \cup {GhostId}), MaxLinks) :
           /\ \A id \in NodeIds(n) : isGw[id] => phaseOf[id] = None
           /\ Constructed(ActorList(MaxActors), PhaseList(MaxPhases),
                          TaskList(n, isGw,
                                   [id \in NodeIds(n) |->
                                      ActorList(MaxActors)[(IdPos(id) % MaxActors) + 1]],
                                   phaseOf, [id \in NodeIds(n) |-> 4]),
                          GatewayList(n, isGw), fl)
  /\ run = 1
  /\ first = NoFirst
  /\ added_flow = <<>>
  /\ input_path = <<>>
  /\ output_arg = <<>>
  /\ svg_output_arg = NonePath
  /\ cwd = <<"/">>
  /\ fs = {}
  /\ paths = NoPaths
  /\ hpc = "start"
  /\ positions = <<>>
  /\ gw_index = 0
  /\ actor_idx = 0
  /\ node_id = None
  /\ frames = 0

engine_vars == <<doc_vars, nodes, node_keys, lanes, ranks, edges, bfs_vars, pc, result,
                 run_vars, path_vars>>

\* Lines 100-115: the loop over the tasks; then the first gateway is taken up
\* and infer_actor_idx is called for it.
PlaceTasks ==
  /\ hpc = "start"
  /\ positions' = [id \in TaskIds |-> TaskPosition(TaskOf(id))]
  /\ actor_idx' = 0
  /\ IF gateways = <<>>
     THEN hpc' = "done" /\ gw_index' = 0 /\ node_id' = None /\ frames' = 0
     ELSE hpc' = "actor" /\ gw_index' = 1 /\ node_id' = gateways[1] /\ frames' = 1
  /\ UNCHANGED engine_vars

\* Lines 63-77: one call of infer_actor_idx.  A task returns its actor's index,
\* a node without adjoining flow returns 0, and any other node returns what the
\* nested call for the first neighbour returns (that value is an int, never
\* None, so the loop over neighbour_ids ends at its first pass).  The value
\* goes back through all frames unchanged; infer_phase_idx is called next.
\* A nested call when RecursionLimit frames are open raises RecursionError.
InferActorStep ==
  /\ hpc = "actor"
  /\ IF node_id \in TaskIds \/ Adjoining(node_id) = {}
     THEN /\ actor_idx' = IF node_id \in TaskIds
                          THEN OrderGet(actors, TaskOf(node_id).actor_id) ELSE 0
          /\ hpc' = "phase"
          /\ node_id' = gateways[gw_index]
          /\ frames' = 1
     ELSE IF frames >= RecursionLimit
     THEN hpc' = "recursion_error" /\ UNCHANGED <<actor_idx, node_id, frames>>
     ELSE /\ node_id' = FirstNeighbour(node_id)
          /\ frames' = frames + 1
          /\ UNCHANGED <<hpc, actor_idx>>
  /\ UNCHANGED <<engine_vars, positions, gw_index>>

\* Lines 51-60: one call of infer_phase_idx, in the same way; when the value is
\* back, lines 119-133 store the gateway's NodeLayout and the next gateway is
\* taken up.
InferPhaseStep ==
  /\ hpc = "phase"
  /\ IF node_id \in TaskIds \/ Adjoining(node_id) = {}
     THEN LET phase_idx == IF node_id \in TaskIds
                           THEN OrderGet(phases, TaskOf(node_id).phase_id) ELSE 0
              gw == gateways[gw_index]
          IN /\ positions' = DictSet(positions, gw, GatewayPosition(gw, actor_idx, phase_idx))
             /\ IF gw_index < Len(gateways)
                THEN /\ hpc' = "actor"
                     /\ gw_index' = gw_index + 1
                     /\ node_id' = gateways[gw_index + 1]
                     /\ frames' = 1
                ELSE /\ hpc' = "done"
                     /\ node_id' = None
                     /\ frames' = 0
                     /\ UNCHANGED gw_index
     ELSE IF frames >= RecursionLimit
     THEN hpc' = "recursion_error" /\ UNCHANGED <<positions, gw_index, node_id, frames>>
     ELSE /\ node_id' = FirstNeighbour(node_id)
          /\ frames' = frames + 1
          /\ UNCHANGED <<hpc, positions, gw_index>>
  /\ UNCHANGED <<engine_vars, actor_idx>>

HtmlNext ==
  \/ PlaceTasks
  \/ InferActorStep
  \/ InferPhaseStep

\* build_layout runs on without interruption.
HtmlSpec == HtmlInit /\ [][HtmlNext]_vars /\ WF_vars(HtmlNext)

(* ======================= properties ======================= *)
Finished == pc = "done"
Ended == pc \in {"done", "raised"}
DocNodeIds == TaskIds \cup Range(gateways)
IsNodeFlow(flow) == flow.from \in DocNodeIds /\ flow.to \in DocNodeIds
DanglingFlows == {i \in 1..Len(flows_data) : ~IsNodeFlow(flows_data[i])}

\* Successors of u that are nodes, and everything reachable from u by >= 1 flow.
NodeSucc(u) == Range(graph[u]) \cap DocNodeIds
RECURSIVE ReachFrom(_, _)
ReachFrom(frontier, seen) ==
  LET new == (UNION {NodeSucc(u) : u \in frontier}) \ seen
  IN IF new = {} THEN seen ELSE ReachFrom(new, seen \cup new)
Descendants(u) == ReachFrom({u}, {})
OnCycle(u) == u \in Descendants(u)
Seeds == {nid \in DocNodeIds : Len(reverse_graph[nid]) = 0}

\* C1: after calculate_layout, every flow (u,v) between two nodes neither of
\* which lies on a cycle has rank_index(v) >= rank_index(u) + 1.
C1_RankMonotone ==
  Finished =>
    \A i \in 1..Len(flows_data) :
      LET u == flows_data[i].from
          v == flows_data[i].to
      IN (IsNodeFlow(flows_data[i]) /\ ~OnCycle(u) /\ ~OnCycle(v))
           => nodes[v].rank_index >= nodes[u].rank_index + 1

\* C2: calculate_layout never raises, whatever the graph topology of the document.
C2_NeverRaises == pc # "raised"

\* C3: with exactly one flow naming an id that is no node, calculate_layout
\* completes and routes exactly the other N-1 flows.
C3_DanglingFlowDropped ==
  (Ended /\ Cardinality(DanglingFlows) = 1) =>
    /\ Finished
    /\ Len(edges) = Len(flows_data) - 1
    /\ \A i \in 1..Len(edges) :
         edges[i].from_node \in DocNodeIds /\ edges[i].to_node \in DocNodeIds

\* The layout fields of a node.
Placement(node) ==
  <<node.lane_index, node.rank_index, node.order_in_rank, node.width, node.height,
    node.x, node.y>>

\* C4: the layout computed for a document with one more flow, which names a
\* non-existent node id, gives every node the lane index, rank index, order in
\* rank, size and coordinates it has in the layout of the document without it.
C4_DanglingFlowNoEffect ==
  (run = 2 /\ added_flow # <<>> /\ Finished) =>
    \A id \in DOMAIN nodes : Placement(nodes[id]) = Placement(first.nodes[id])

\* The document of two nodes a, b whose flows are a->b and b->a.
IsTwoCycleDoc ==
  /\ DocNodeIds = {"a", "b"}
  /\ Len(flows_data) = 2
  /\ Range(flows_data) = {[from |-> "a", to |-> "b"], [from |-> "b", to |-> "a"]}

\* C5 as stated: for the cycle a->b->a the two nodes get distinct, non-negative ranks.
C5_TwoCycleDistinctRanks ==
  (IsTwoCycleDoc /\ Finished) =>
    /\ nodes["a"].rank_index # nodes["b"].rank_index
    /\ nodes["a"].rank_index >= 0
    /\ nodes["b"].rank_index >= 0

\* C5 amended: for the cycle a->b->a calculate_layout does not raise and gives
\* both nodes the same rank index, 1.
C5_TwoCycleSameRank ==
  IsTwoCycleDoc =>
    /\ pc # "raised"
    /\ Finished => (nodes["a"].rank_index = 1 /\ nodes["b"].rank_index = 1)

C5_Witness == IsTwoCycleDoc /\ Finished /\ Len(edges) = 2

\* C6: during rank assignment every node is appended to the queue at most once
\* and gets its rank at most once, and the while loop makes at most |nodes|
\* iterations, cyclic documents included.
C6_EnqueuedAndRankedOnce ==
  /\ \A nid \in DOMAIN enqueue_count : enqueue_count[nid] <= 1
  /\ \A nid \in DOMAIN assign_count : assign_count[nid] <= 1
  /\ dequeues <= Cardinality(DOMAIN nodes)
  /\ dequeues + Len(queue) <= Cardinality(DOMAIN nodes)

C6_Witness ==
  /\ Finished
  /\ \E u \in DocNodeIds : OnCycle(u)
  /\ \E v \in DocNodeIds : v \notin Seeds /\ enqueue_count[v] = 1
  /\ \E w \in DocNodeIds : Len(reverse_graph[w]) >= 2 /\ enqueue_count[w] = 1

\* C7: a second computation on an equal document ends the way the first did
\* and yields the same nodes (lane, rank, order, size, coordinates), lanes,
\* ranks, edges (waypoints) and return value, whatever the iteration orders
\* of the set of node ids were in the two computations.
C7_Deterministic ==
  (run = 2 /\ added_flow = <<>> /\ Ended) =>
    /\ pc = first.pc
    /\ nodes = first.nodes
    /\ node_keys = first.node_keys
    /\ lanes = first.lanes
    /\ Finished => (ranks = first.ranks /\ edges = first.edges /\ result = first.result)

C7_Witness ==
  /\ run = 2 /\ added_flow = <<>> /\ Finished
  /\ Cardinality(Seeds) >= 2
  /\ Cardinality(DocNodeIds \ Seeds) >= 1
  /\ edges # <<>>

\* Closed rectangles [x, x+width] x [y, y+height] of two nodes share a point.
Overlap(p, q) ==
  /\ p.x <= q.x + q.width /\ q.x <= p.x + p.width
  /\ p.y <= q.y + q.height /\ q.y <= p.y + p.height

\* C8: after calculate_layout no two distinct nodes have overlapping rectangles.
C8_NoOverlap ==
  Finished =>
    \A p, q \in DOMAIN nodes : p # q => ~Overlap(nodes[p], nodes[q])

\* C9: after calculate_layout the lanes tile vertically in actor-list order:
\* the first starts at margin_y, each next one starts where the previous ends,
\* and every height is positive.
C9_LanesTile ==
  Finished =>
    /\ Len(lanes) = Len(actors)
    /\ \A i \in 1..Len(lanes) :
         /\ lanes[i].actor_id = actors[i]
         /\ lanes[i].height > 0
         /\ i = 1 => lanes[i].y = margin_y
         /\ i < Len(lanes) => lanes[i].y + lanes[i].height = lanes[i + 1].y

C9_Witness ==
  /\ Finished
  /\ Len(lanes) = 2
  /\ lanes[1].height # lanes[2].height
  /\ \E id \in DOMAIN nodes : nodes[id].lane_index = 1

\* C10: after calculate_layout the ranks are laid left to right in index order:
\* the first starts at margin_x + lane_header_width, each next one starts
\* rank_spacing after the previous ends, and every width is positive.
C10_RanksLeftToRight ==
  Finished =>
    \A i \in 1..Len(ranks) :
      /\ ranks[i].rank_index = i - 1
      /\ ranks[i].width > 0
      /\ i = 1 => ranks[i].x = margin_x + lane_header_width
      /\ i < Len(ranks) => ranks[i].x + ranks[i].width + rank_spacing = ranks[i + 1].x

C10_Witness ==
  /\ Finished
  /\ Len(ranks) >= 2
  /\ ranks[1].width # ranks[2].width
\* The resolved input path lies under a directory runs/<run-id>/ whose parts
\* are the first k+1 parts of the path.
UnderRun(parts, k) ==
  /\ k \in 1..Len(parts)
  /\ parts[k] = "runs"
  /\ k + 2 <= Len(parts)

\* C20: for an input path under a directory runs/<run-id>/, determine_output_paths
\* returns <...>/runs/<run-id>/output/flow.bpmn and .../output/flow-bpmn.svg
\* whatever output_arg is; for an input outside any runs directory it returns
\* output_arg as the BPMN path.
C20_OutputPaths ==
  paths # NoPaths =>
    LET parts == Resolve(input_path, cwd)
    IN /\ (\E k \in 1..Len(parts) : UnderRun(parts, k)) =>
            \E k \in 1..Len(parts) :
              /\ UnderRun(parts, k)
              /\ paths[1] = SubSeq(parts, 1, k + 1) \o <<"output", "flow.bpmn">>
              /\ paths[2] = SubSeq(parts, 1, k + 1) \o <<"output", "flow-bpmn.svg">>
       /\ (\A k \in 1..Len(parts) : parts[k] # "runs") => paths[1] = output_arg

\* C11: after calculate_layout every node has width > 0, height > 0, x >= 0
\* and y >= 0.
C11_Positivity ==
  Finished =>
    \A id \in DOMAIN nodes :
      /\ nodes[id].width > 0
      /\ nodes[id].height > 0
      /\ nodes[id].x >= 0
      /\ nodes[id].y >= 0

C11_Witness ==
  /\ Finished
  /\ \E id \in DOMAIN nodes : nodes[id].kind = "gateway"
  /\ \E p, q \in DOMAIN nodes :
       /\ p # q
       /\ nodes[p].rank_index = nodes[q].rank_index
       /\ nodes[p].lane_index = nodes[q].lane_index
       /\ nodes[p].y < nodes[q].y

\* C12: after calculate_layout the edges are, in flow order, one per flow whose
\* two ends are nodes; each has at least 2 waypoints, the first the source's
\* right-mid point (x + width, y + height/2), the last the target's left-mid
\* point (x, y + height/2).
C12_EdgeCompleteness ==
  Finished =>
    LET node_flows == SelectSeq(flows_data, IsNodeFlow)
    IN /\ Len(edges) = Len(node_flows)
       /\ \A i \in 1..Len(edges) :
            LET u == nodes[node_flows[i].from]
                v == nodes[node_flows[i].to]
                wp == edges[i].waypoints
            IN /\ edges[i].from_node = node_flows[i].from
               /\ edges[i].to_node = node_flows[i].to
               /\ Len(wp) >= 2
               /\ wp[1] = <<u.x + u.width, u.y + Half(u.height)>>
               /\ wp[Len(wp)] = <<v.x, v.y + Half(v.height)>>

C12_Witness ==
  /\ Finished
  /\ Len(edges) >= 2
  /\ \E i \in 1..Len(edges) : Len(edges[i].waypoints) = 4
  /\ \E i \in 1..Len(edges) : Len(edges[i].waypoints) = 2

\* C13: every routed edge is an orthogonal polyline: two consecutive waypoints
\* differ in x only or in y only.
C13_Orthogonal ==
  Finished =>
    \A i \in 1..Len(edges) :
      LET wp == edges[i].waypoints
      IN \A k \in 1..(Len(wp) - 1) : wp[k][1] = wp[k + 1][1] \/ wp[k][2] = wp[k + 1][2]

\* Positions in a list of neighbour ids that hold a task, and those that hold a
\* task whose actor_id is one of the actors (a task with a resolvable lane).
TaskPositions(ids) == {i \in 1..Len(ids) : ids[i] \in TaskIds}
ResolvablePositions(ids) ==
  {i \in TaskPositions(ids) : TaskOf(ids[i]).actor_id \in Range(actors)}
\* The lane indexes that occur most often at the given positions.
MostCommonLanes(ids, places) ==
  LET count(l) == Cardinality({i \in places : nodes[ids[i]].lane_index = l})
      found == {nodes[ids[i]].lane_index : i \in places}
  IN {l \in found : \A m \in found : count(m) <= count(l)}

\* C14 as stated: a gateway's lane is the most common lane among its
\* predecessors if any predecessor has a resolvable lane, otherwise the lane of
\* a successor, otherwise lane 0.
C14_MostCommonPredecessorLane ==
  Finished =>
    \A g \in Range(gateways) :
      LET preds == reverse_graph[g]
          succs == graph[g]
          rp == ResolvablePositions(preds)
          rs == ResolvablePositions(succs)
      IN IF rp # {} THEN nodes[g].lane_index \in MostCommonLanes(preds, rp)
         ELSE IF rs # {}
              THEN nodes[g].lane_index \in {nodes[succs[i]].lane_index : i \in rs}
         ELSE nodes[g].lane_index = 0

\* C14 amended: a gateway's lane is the lane of its first predecessor (in flow
\* order) that is a task, otherwise the lane of its first successor that is a
\* task, otherwise lane 0.
C14_FirstTaskNeighbourLane ==
  Finished =>
    \A g \in Range(gateways) :
      LET preds == reverse_graph[g]
          succs == graph[g]
          tp == TaskPositions(preds)
          ts == TaskPositions(succs)
          least(S) == CHOOSE i \in S : \A j \in S : i <= j
      IN IF tp # {} THEN nodes[g].lane_index = nodes[preds[least(tp)]].lane_index
         ELSE IF ts # {} THEN nodes[g].lane_index = nodes[succs[least(ts)]].lane_index
         ELSE nodes[g].lane_index = 0

\* A gateway with three task predecessors whose first lane is not the most common one.
C14_Witness ==
  /\ Finished
  /\ \E g \in Range(gateways) :
       LET preds == reverse_graph[g]
       IN /\ Len(preds) = 3
          /\ ResolvablePositions(preds) = {1, 2, 3}
          /\ nodes[preds[1]].lane_index \notin MostCommonLanes(preds, {1, 2, 3})
          /\ nodes[g].lane_index = nodes[preds[1]].lane_index

\* The ids of a rank and lane, in order_in_rank order.
CellOf(rank_idx, lane_idx) ==
  SortedSeq({id \in DOMAIN nodes : /\ nodes[id].rank_index = rank_idx
                                   /\ nodes[id].lane_index = lane_idx},
            LAMBDA p, q : nodes[p].order_in_rank < nodes[q].order_in_rank)

\* C15: for the nodes sharing one rank and one lane the y values are pairwise
\* distinct and, in order_in_rank order, each node's y is the previous node's
\* y + height + node_spacing_y.
C15_StackedInCell ==
  Finished =>
    \A p \in DOMAIN nodes :
      LET cell == CellOf(nodes[p].rank_index, nodes[p].lane_index)
      IN /\ \A i, j \in 1..Len(cell) : i # j => nodes[cell[i]].y # nodes[cell[j]].y
         /\ \A i \in 2..Len(cell) :
              nodes[cell[i]].y
                = nodes[cell[i - 1]].y + nodes[cell[i - 1]].height + node_spacing_y

\* The flows are exactly the chain order[1] -> order[2] -> ... of tasks of one actor.
IsChain(order) ==
  /\ Len(order) >= 2
  /\ \A i, j \in 1..Len(order) : i # j => order[i] # order[j]
  /\ Range(order) \subseteq TaskIds
  /\ \A i \in 1..Len(order) : TaskOf(order[i]).actor_id = TaskOf(order[1]).actor_id
  /\ Len(flows_data) = Len(order) - 1
  /\ \A i \in 1..(Len(order) - 1) :
       [from |-> order[i], to |-> order[i + 1]] \in Range(flows_data)

\* C16: for a chain of tasks t0 -> t1 -> ... -> tn of one actor with no other
\* flows, rank_index(ti) = i, all lane indexes are equal and x grows along the chain.
C16_LinearChain ==
  Finished =>
    \A order \in SeqsUpTo(TaskIds, Len(tasks)) :
      IsChain(order) =>
        /\ \A i \in 1..Len(order) : nodes[order[i]].rank_index = i - 1
        /\ \A i \in 1..Len(order) : nodes[order[i]].lane_index = nodes[order[1]].lane_index
        /\ \A i \in 1..(Len(order) - 1) : nodes[order[i]].x < nodes[order[i + 1]].x

C16_Witness ==
  /\ Finished
  /\ \E order \in SeqsUpTo(TaskIds, Len(tasks)) :
       IsChain(order) /\ Len(order) = 3 /\ order[1] # "a"

IsEmptyDoc == actors = <<>> /\ tasks = <<>> /\ gateways = <<>> /\ flows_data = <<>>

\* C17: for the empty document calculate_layout returns zero nodes and zero
\* lanes without raising, and calculate_diagram_size returns (800, 600).
C17_EmptyDocument ==
  IsEmptyDoc =>
    /\ pc # "raised"
    /\ Finished =>
         /\ DOMAIN result.node_layouts = {}
         /\ result.lane_layouts = <<>>
         /\ calculate_diagram_size(ranks, lanes) = <<800, 600>>

C17_Witness == IsEmptyDoc /\ Finished /\ result.returned /\ Len(ranks) = 1

\* C18: the size calculate_diagram_size returns after calculate_layout covers
\* the content: every node has x + width <= total width and y + height <=
\* total height, and every lane ends at or above total height.
C18_CanvasCoversContent ==
  Finished =>
    LET size == calculate_diagram_size(ranks, lanes)
    IN /\ \A id \in DOMAIN nodes :
            /\ nodes[id].x + nodes[id].width <= size[1]
            /\ nodes[id].y + nodes[id].height <= size[2]
       /\ \A i \in 1..Len(lanes) : lanes[i].y + lanes[i].height <= size[2]

\* C19: when the document has phases, the rank index of a node whose phase is
\* in the phases list is the position of that phase, and in a flow-less
\* document tasks of different phases get different x values.
C19_PhasesDecideColumns ==
  (Finished /\ phases # <<>>) =>
    /\ \A id \in DOMAIN nodes :
         nodes[id].phase_id \in Range(phases) =>
           nodes[id].rank_index = IndexOf(phases, nodes[id].phase_id) - 1
    /\ flows_data = <<>> =>
         \A p, q \in DOMAIN nodes :
           ( /\ nodes[p].phase_id \in Range(phases)
             /\ nodes[q].phase_id \in Range(phases)
             /\ nodes[p].phase_id # nodes[q].phase_id ) => nodes[p].x # nodes[q].x

\* Every flow joins two nodes and no node lies on a cycle.
IsAcyclicNodeDoc ==
  /\ \A i \in 1..Len(flows_data) : IsNodeFlow(flows_data[i])
  /\ \A u \in DocNodeIds : ~OnCycle(u)

\* Length of the longest path from a zero-in-degree node to v (acyclic documents).
RECURSIVE LongestPathTo(_)
LongestPathTo(v) ==
  LET preds == Range(reverse_graph[v])
  IN IF preds = {} THEN 0 ELSE 1 + SetMax({LongestPathTo(u) : u \in preds})

\* C21: for an acyclic document in which every flow endpoint is a node, each
\* node's rank_index is the length of the longest path from a zero-in-degree
\* node to it: 0 for a source, otherwise 1 + the largest rank_index among its
\* predecessors.
C21_LongestPathRank ==
  (Finished /\ IsAcyclicNodeDoc) =>
    \A v \in DOMAIN nodes :
      LET preds == Range(reverse_graph[v])
      IN /\ nodes[v].rank_index = LongestPathTo(v)
         /\ preds = {} => nodes[v].rank_index = 0
         /\ preds # {} =>
              nodes[v].rank_index = 1 + SetMax({nodes[u].rank_index : u \in preds})

\* A node whose predecessors have different ranks.
C21_Witness ==
  /\ Finished
  /\ IsAcyclicNodeDoc
  /\ \E v \in DOMAIN nodes :
       \E u, w \in Range(reverse_graph[v]) : nodes[u].rank_index < nodes[w].rank_index

\* The nodes the while loop never took from the queue, and the largest rank it
\* assigned (0 when it assigned none).
Unreached == {nid \in DOMAIN nodes : enqueue_count[nid] = 0}
MaxBFSRank ==
  LET reached == DOMAIN nodes \ Unreached
  IN IF reached = {} THEN 0 ELSE SetMax({nodes[nid].rank_index : nid \in reached})
\* The nodes on a cycle and the nodes reachable from one.
CycleBound == {u \in DocNodeIds : \E c \in DocNodeIds : OnCycle(c) /\ u \in Descendants(c)}

\* C22: every node the BFS never reaches gets rank_index = (largest rank the BFS
\* assigned) + 1, that largest rank counting as 0 when the BFS assigned none, so
\* all unreached nodes share one rank; nodes on a cycle or behind one are unreached.
C22_UnreachedAtMaxPlusOne ==
  Finished =>
    /\ \A nid \in Unreached : nodes[nid].rank_index = MaxBFSRank + 1
    /\ \A p, q \in Unreached : nodes[p].rank_index = nodes[q].rank_index
    /\ CycleBound \subseteq Unreached

\* A node is reached, and a cycle node and a node behind the cycle are not.
C22_Witness ==
  /\ Finished
  /\ Unreached # DOMAIN nodes
  /\ \E p, q \in Unreached : OnCycle(p) /\ ~OnCycle(q)

\* _assign_ranks has returned.
RanksAssigned == pc \notin {"idle", "assign_lanes", "assign_ranks", "bfs", "raised"}

\* C23: after rank assignment the Rank records are exactly one per distinct
\* rank index some node has, with indexes consecutive from 0; no Rank record
\* has an index no node has.
C23_RanksInUse ==
  RanksAssigned =>
    /\ \A i \in 1..Len(ranks) : ranks[i].rank_index = i - 1
    /\ {ranks[i].rank_index : i \in 1..Len(ranks)}
         = {nodes[id].rank_index : id \in DOMAIN nodes}

\* _order_nodes_in_rank has returned.
NodesOrdered == RanksAssigned /\ pc # "order_nodes"
NodesOfRank(rank_idx) == {id \in DOMAIN nodes : nodes[id].rank_index = rank_idx}
\* The sort key (lane_index, node_id) of p is smaller than that of q.
KeyBefore(p, q) ==
  \/ nodes[p].lane_index < nodes[q].lane_index
  \/ nodes[p].lane_index = nodes[q].lane_index /\ IdPos(p) < IdPos(q)

RightMid(node) == <<node.x + node.width, node.y + Half(node.height)>>
LeftMid(node) == <<node.x, node.y + Half(node.height)>>

\* C25: a routed edge has exactly 2 waypoints [source right-mid, target
\* left-mid] when its ends have the same lane index and rank indexes differing
\* by at most 1; otherwise exactly 4 waypoints [source right-mid, (midX,
\* sourceY), (midX, targetY), target left-mid], midX being the mean of the x
\* values of the two connection points.
C25_WaypointShape ==
  Finished =>
    \A i \in 1..Len(edges) :
      LET u == nodes[edges[i].from_node]
          v == nodes[edges[i].to_node]
          s == RightMid(u)
          t == LeftMid(v)
          wp == edges[i].waypoints
      IN IF u.lane_index = v.lane_index /\ Abs(u.rank_index - v.rank_index) <= 1
         THEN wp = <<s, t>>
         ELSE /\ Len(wp) = 4
              /\ wp[1] = s
              /\ wp[4] = t
              /\ wp[2][2] = s[2]
              /\ wp[3][2] = t[2]
              /\ wp[2][1] = wp[3][1]
              /\ 2 * wp[2][1] = s[1] + t[1]

\* A direct edge next to a 4-point edge that stays in one lane and spans two ranks.
C25_Witness ==
  /\ Finished
  /\ \E i \in 1..Len(edges) : Len(edges[i].waypoints) = 2
  /\ \E i \in 1..Len(edges) :
       LET u == nodes[edges[i].from_node]
           v == nodes[edges[i].to_node]
       IN /\ u.lane_index = v.lane_index
          /\ v.rank_index - u.rank_index = 2
          /\ Len(edges[i].waypoints) = 4

\* C26: every node is horizontally centred in and contained by its rank band:
\* node.x - rank.x = (rank.x + rank.width) - (node.x + node.width) >= 0, the
\* rank's width being the largest width among all nodes with that rank index.
C26_CentredInRank ==
  Finished =>
    \A id \in DOMAIN nodes :
      \E i \in 1..Len(ranks) :
        LET rank == ranks[i]
            node == nodes[id]
        IN /\ rank.rank_index = node.rank_index
           /\ node.x - rank.x = (rank.x + rank.width) - (node.x + node.width)
           /\ node.x - rank.x >= 0
           /\ rank.width = SetMax({nodes[m].width : m \in NodesOfRank(node.rank_index)})

\* A rank that holds a gateway, a short-named task and a long-named task.
C26_Witness ==
  /\ Finished
  /\ \E p, q, r \in DOMAIN nodes :
       /\ nodes[p].rank_index = nodes[q].rank_index
       /\ nodes[q].rank_index = nodes[r].rank_index
       /\ nodes[p].width < nodes[q].width
       /\ nodes[q].width < nodes[r].width
       /\ nodes[p].x > nodes[q].x

\* _assign_lanes has returned.
LanesAssigned == pc \notin {"idle", "assign_lanes"}

\* C27: a task's lane_index is the position of its actor_id in the actors
\* list, 0 when the actor_id is missing or names no actor; there is one Lane
\* record per actor, in input order; and after lane assignment every node's
\* lane_index is the index of an existing Lane record.
C27_LaneIndexes ==
  LanesAssigned =>
    /\ \A i \in 1..Len(tasks) :
         nodes[tasks[i].id].lane_index
           = IF tasks[i].actor_id \in Range(actors)
             THEN IndexOf(actors, tasks[i].actor_id) - 1
             ELSE 0
    /\ Len(lanes) = Len(actors)
    /\ \A i \in 1..Len(lanes) :
         lanes[i].lane_index = i - 1 /\ lanes[i].actor_id = actors[i]
    /\ \A id \in DOMAIN nodes :
         \E i \in 1..Len(lanes) : lanes[i].lane_index = nodes[id].lane_index

\* C28: a second call of calculate_layout on the same engine returns a result
\* equal to the first and leaves the node table, the lane list, the rank list
\* and the edge list equal to what they were after the first call.
C28_SecondCallEqual ==
  /\ run = 2 => pc # "raised"
  /\ (run = 2 /\ Finished) =>
       /\ result = first.result
       /\ nodes = first.nodes
       /\ node_keys = first.node_keys
       /\ lanes = first.lanes
       /\ ranks = first.ranks
       /\ edges = first.edges

\* The second call has returned for a document with lanes, several ranks and edges.
C28_Witness ==
  /\ run = 2
  /\ Finished
  /\ first.result.returned
  /\ Len(lanes) >= 1
  /\ Len(ranks) >= 2
  /\ Len(edges) >= 2

\* C29: every node whose lane index has a Lane record lies vertically inside
\* that lane's band, at least lane_padding_y away from both of its edges.
C29_InsideLane ==
  Finished =>
    \A id \in DOMAIN nodes :
      \A i \in 1..Len(lanes) :
        lanes[i].lane_index = nodes[id].lane_index =>
          /\ lanes[i].y + lane_padding_y <= nodes[id].y
          /\ nodes[id].y + nodes[id].height
                <= lanes[i].y + lanes[i].height - lane_padding_y

\* A stack that leaves exactly lane_padding_y above and below, in a document
\* with a second lane that holds a node.
C29_Witness ==
  /\ Finished
  /\ Len(lanes) = 2
  /\ \E p, q \in DOMAIN nodes :
       \E i \in 1..Len(lanes) :
         /\ lanes[i].lane_index = nodes[p].lane_index
         /\ lanes[i].lane_index = nodes[q].lane_index
         /\ nodes[p].y = lanes[i].y + lane_padding_y
         /\ nodes[q].y + nodes[q].height = lanes[i].y + lanes[i].height - lane_padding_y
         /\ p # q
  /\ \E r \in DOMAIN nodes : nodes[r].lane_index = 1

\* C30: build_layout of the HTML visualizer terminates for every document: it
\* comes to return its positions, the recursive lookups infer_actor_idx and
\* infer_phase_idx reaching a task or running out of flows after finitely many
\* calls.
C30_BuildLayoutTerminates == <>(hpc = "done")
====
